---- MODULE Spec2Model ----
(***************************************************************************)
(* Model of client/src/components/barcode-scanner.tsx: the keystroke       *)
(* accumulator (bufferRef, the 100 ms inactivity timer) and the            *)
(* reference / comparison workflow of the BarcodeScanner component.        *)
(*                                                                         *)
(* A string is a sequence of one-character strings, so that concatenation, *)
(* trim, length and the regular-expression test are computed as the code   *)
(* computes them.                                                          *)
(*                                                                         *)
(* Three specifications share the actions.  Under Spec a timer may fire at *)
(* any moment after it was armed, so every order of key events, timer      *)
(* callbacks, lookup responses and button clicks is covered.  Under        *)
(* SpecTimed time is counted in milliseconds: a timer fires when its       *)
(* remaining time is 0 and Tick lets time pass up to the next deadline.    *)
(* SpecLive is Spec with weak fairness of the inactivity timer's callback. *)
(***************************************************************************)
EXTENDS Integers, Sequences, FiniteSets, TLC

VARIABLES
    referenceCode,          \* useState<string | null>(null)
    pendingReferenceCode,   \* useState<string | null>(null)
    barcodeBuffer,          \* useState<string>("")
    isReadingReference,     \* useState(true)
    comparisonResult,       \* useState<"match" | "no-match" | null>(null)
    scanCount,              \* useState(0)
    comparisonCount,        \* useState(0)
    bufferRef,              \* useRef<string>("")
    timeoutRef,             \* useRef<NodeJS.Timeout | null>(null): a timer handle
    scanTimers,             \* outstanding setTimeout(..., 100) timers: handle -> ms left
    resultTimers,           \* outstanding setTimeout(..., 3000) timers, oldest first: ms left
    queryState,             \* useQuery result for the current key
    inflight,               \* codes whose lookup request has no response yet
    mounted,                \* the component is mounted
    toast,                  \* the notification raised by the last step
    clocked,                \* TRUE under SpecTimed: timers fire when their time has run out
    typedSince,             \* history: alphanumeric keys received since the last CompletedScan
    typedSinceClear,        \* history: the same, since the last CompletedScan or reset of bufferRef
    runEmits,               \* history: CompletedScans emitted since the last character was buffered
    resultAge,              \* history: ms since comparisonResult was last set by a scan
    sawStale,               \* history: a response for a code that was not pending has arrived
    garmentCode,            \* history: the code of the last record useQuery handed to the component
    comparisonScans         \* history: CompletedScans processed in Compare mode since the last reset

vars == <<referenceCode, pendingReferenceCode, barcodeBuffer, isReadingReference,
          comparisonResult, scanCount, comparisonCount, bufferRef, timeoutRef,
          scanTimers, resultTimers, queryState, inflight, mounted, toast, clocked,
          typedSince, typedSinceClear, runEmits, resultAge, sawStale, garmentCode,
          comparisonScans>>

\* the value null of a string | null (no string is this sequence: characters have length 1)
Null == <<"null">>
NoResult == "none"       \* comparisonResult null
NoToast == "none"        \* no notification raised
NoHandle == 0            \* timeoutRef.current null

\* ---- bounds of the model ----
MaxCount == 2           \* cap of scanCount and of comparisonCount
MaxResultTimers == 2    \* outstanding result timers
MaxInflight == 2        \* lookup requests without a response
MaxCompared == 3        \* cap of the comparison scans between two resets

\* ---- program constants ----
InactivityMs == 100
ResultMs == 3000

\* a timer with `left` ms to run may fire
Due(left) == clocked => left = 0

\* ---- strings ----
Enter == <<"E", "n", "t", "e", "r">>
Shift == <<"S", "h", "i", "f", "t">>
Keys == {<<"A">>, <<"a">>, <<"-">>, Shift, Enter}

\* the codes the scanner types, each with its prefixes
ScanCodes == {<<"A">>, <<"a">>, <<"A", "a">>, <<"a", "A">>}
IsPrefix(p, str) == Len(p) <= Len(str) /\ SubSeq(str, 1, Len(p)) = p

LowerSeq == <<"a","b","c","d","e","f","g","h","i","j","k","l","m",
             "n","o","p","q","r","s","t","u","v","w","x","y","z">>
UpperSeq == <<"A","B","C","D","E","F","G","H","I","J","K","L","M",
             "N","O","P","Q","R","S","T","U","V","W","X","Y","Z">>
LowerChars == {LowerSeq[i] : i \in 1..Len(LowerSeq)}
UpperChars == {UpperSeq[i] : i \in 1..Len(UpperSeq)}
DigitChars == {"0","1","2","3","4","5","6","7","8","9"}
\* the character class [a-zA-Z0-9]
AlnumClass == LowerChars \cup UpperChars \cup DigitChars
\* /[a-zA-Z0-9]/.test(s): some character of s is in the class (the pattern is not anchored)
RegexTest(s) == \E i \in 1..Len(s) : s[i] \in AlnumClass

WhiteSpace == {" ", "\t", "\n", "\r"}
RECURSIVE TrimStart(_)
TrimStart(s) == IF s # <<>> /\ Head(s) \in WhiteSpace THEN TrimStart(Tail(s)) ELSE s
RECURSIVE TrimEnd(_)
TrimEnd(s) == IF s # <<>> /\ s[Len(s)] \in WhiteSpace
                 THEN TrimEnd(SubSeq(s, 1, Len(s) - 1)) ELSE s
\* String.prototype.trim
Trim(s) == TrimEnd(TrimStart(s))

\* JavaScript truthiness of a string | null
Truthy(s) == s # Null /\ s # <<>>

\* ---- useQuery({queryKey: ['/api/garments', pendingReferenceCode], enabled: !!pendingReferenceCode}) ----
referenceGarment == queryState = "success"

\* the query observer follows the key: a new enabled key starts (or joins) a fetch,
\* a disabled key has neither data nor error
QueryOnKey(newKey) ==
    IF newKey = pendingReferenceCode
      THEN UNCHANGED <<queryState, inflight>>
      ELSE IF Truthy(newKey)
             THEN queryState' = "fetching" /\ inflight' = inflight \cup {newKey}
             ELSE queryState' = "idle" /\ UNCHANGED inflight

\* (a variant that reports every response, whatever key it was requested for)
ObservedAny(c) == mounted /\ Truthy(pendingReferenceCode)

\* the observer reports a response only for its current, enabled key
Observed(c) == mounted /\ Truthy(pendingReferenceCode) /\ c = pendingReferenceCode

\* ---- the scan accumulator ----
\* (a variant without the length test)
IsAlnumKeyNoLen(key) == RegexTest(key)

\* event.key.length === 1 && /[a-zA-Z0-9]/.test(event.key)
IsAlnumKey(key) == Len(key) = 1 /\ RegexTest(key)

\* (a variant that keeps the code that is already pending)
CaptureScanKeepFirst(code) ==
    /\ pendingReferenceCode' = IF Truthy(pendingReferenceCode) THEN pendingReferenceCode
                               ELSE code
    /\ scanCount' = scanCount + 1
    /\ QueryOnKey(IF Truthy(pendingReferenceCode) THEN pendingReferenceCode ELSE code)
    /\ toast' = NoToast

\* (a variant that counts a scan only when no code is pending)
CaptureScanFirstOnly(code) ==
    /\ pendingReferenceCode' = code
    /\ scanCount' = IF Truthy(pendingReferenceCode) THEN scanCount ELSE scanCount + 1
    /\ QueryOnKey(code)
    /\ toast' = NoToast

\* isReadingReference branch of a completed scan
CaptureScan(code) ==
    /\ pendingReferenceCode' = code
    /\ scanCount' = scanCount + 1
    /\ QueryOnKey(code)
    /\ toast' = NoToast

\* (a variant that compares without regard to case)
ToLower(ch) == IF \E i \in 1..Len(UpperSeq) : UpperSeq[i] = ch
                 THEN LowerSeq[CHOOSE i \in 1..Len(UpperSeq) : UpperSeq[i] = ch]
                 ELSE ch
LowerCase(str) == [i \in 1..Len(str) |-> ToLower(str[i])]
MatchesIgnoreCase(code, ref) == LowerCase(code) = LowerCase(ref)

\* const matches = code === referenceCode
Matches(code, ref) == code = ref

\* handleCodeComparison, with the referenceCode its closure holds
HandleCodeComparison(code, ref) ==
    IF Truthy(ref)
      THEN LET matches == Matches(code, ref) IN
           /\ comparisonResult' = IF matches THEN "match" ELSE "no-match"
           /\ comparisonCount' = IF matches THEN comparisonCount + 1 ELSE comparisonCount
           /\ toast' = IF matches THEN "match" ELSE "no-match"
           /\ resultTimers' = Append(resultTimers, ResultMs)
           /\ resultAge' = 0
      ELSE /\ toast' = NoToast
           /\ UNCHANGED <<comparisonResult, comparisonCount, resultTimers, resultAge>>

\* the bounds of the model, as a guard of a completed scan
ScanAllowed(code, reading, ref) ==
    IF reading
      THEN /\ scanCount < MaxCount
           /\ Cardinality(IF code = pendingReferenceCode THEN inflight
                          ELSE inflight \cup {code}) <= MaxInflight
      ELSE /\ Len(resultTimers) < MaxResultTimers
           /\ Matches(code, ref) => comparisonCount < MaxCount
           /\ comparisonScans < MaxCompared

\* a CompletedScan handed to the workflow by a handler whose closure holds
\* isReadingReference = reading and referenceCode = ref
CompletedScan(code, reading, ref) ==
    /\ ScanAllowed(code, reading, ref)
    /\ IF reading
         THEN /\ CaptureScan(code)
              /\ UNCHANGED <<comparisonResult, comparisonCount, resultTimers, resultAge>>
         ELSE /\ HandleCodeComparison(code, ref)
              /\ UNCHANGED <<pendingReferenceCode, scanCount, queryState, inflight>>
    /\ typedSince' = <<>>
    /\ typedSinceClear' = <<>>
    /\ runEmits' = runEmits + 1
    /\ comparisonScans' = IF reading THEN comparisonScans ELSE comparisonScans + 1

\* (a variant that empties the displayed buffer only)
ClearBufferStateOnly ==
    /\ barcodeBuffer' = <<>>
    /\ UNCHANGED bufferRef

\* setBarcodeBuffer(""); bufferRef.current = ""
ClearBuffer ==
    /\ barcodeBuffer' = <<>>
    /\ bufferRef' = <<>>

\* clearTimeout(timeoutRef.current) when the handle is set
ClearedScanTimers == {t \in scanTimers : timeoutRef = NoHandle \/ t.id # timeoutRef}

\* the handle setTimeout returns: one no outstanding timer has
NewHandle(timers) == CHOOSE h \in 1..(Cardinality(timers) + 1) : \A t \in timers : t.id # h

\* the Enter branch of handleKeyDown
EnterKey ==
    IF Truthy(Trim(bufferRef))
      THEN /\ CompletedScan(Trim(bufferRef), isReadingReference, referenceCode)
           /\ ClearBuffer
           /\ UNCHANGED <<timeoutRef, scanTimers>>
      ELSE /\ toast' = NoToast
           /\ UNCHANGED <<pendingReferenceCode, scanCount, queryState, inflight,
                          comparisonResult, comparisonCount, resultTimers, resultAge,
                          typedSince, typedSinceClear, runEmits, comparisonScans,
                          barcodeBuffer, bufferRef, timeoutRef, scanTimers>>

\* the alphanumeric branch of handleKeyDown: append, cancel the timer, arm a new one
\* whose closure holds the isReadingReference and referenceCode of this render
CharKey(key) ==
    /\ bufferRef' = bufferRef \o key
    /\ barcodeBuffer' = bufferRef'
    /\ LET kept == ClearedScanTimers
           h == NewHandle(kept)
       IN /\ scanTimers' = kept \cup {[id |-> h, left |-> InactivityMs,
                                       reading |-> isReadingReference, ref |-> referenceCode]}
          /\ timeoutRef' = h
    /\ runEmits' = 0
    /\ toast' = NoToast
    /\ UNCHANGED <<pendingReferenceCode, scanCount, queryState, inflight, comparisonResult,
                   comparisonCount, resultTimers, resultAge, comparisonScans>>

\* a key that is neither Enter nor a single alphanumeric character
OtherKey ==
    /\ toast' = NoToast
    /\ UNCHANGED <<pendingReferenceCode, scanCount, queryState, inflight, comparisonResult,
                   comparisonCount, resultTimers, resultAge, runEmits, comparisonScans,
                   barcodeBuffer, bufferRef, timeoutRef, scanTimers>>

\* the single alphanumeric characters, as the specification of the accumulator names them
SingleAlnum(key) == Len(key) = 1 /\ key[1] \in AlnumClass

\* the scanner sends a character only if it continues one of its codes
Typable(key) ==
    SingleAlnum(key) => \E code \in ScanCodes : IsPrefix(bufferRef \o key, code)

\* handleKeyDown
KeyDown(key) ==
    /\ mounted
    /\ Typable(key)
    /\ IF key = Enter
         THEN EnterKey
         ELSE /\ IF IsAlnumKey(key) THEN CharKey(key) ELSE OtherKey
              /\ typedSince' = IF SingleAlnum(key) THEN typedSince \o key ELSE typedSince
              /\ typedSinceClear' = IF SingleAlnum(key) THEN typedSinceClear \o key
                                    ELSE typedSinceClear
    /\ UNCHANGED <<referenceCode, isReadingReference, mounted, clocked, sawStale,
                   garmentCode>>

\* (a variant that takes a single character for noise)
TimeoutEmitsLong == Len(bufferRef) >= 2

\* if (bufferRef.current.length >= 1) of the timer callback
TimeoutEmits == Len(bufferRef) >= 1

\* the callback of the inactivity timer t
ScanTimeout(t) ==
    /\ t \in scanTimers /\ Due(t.left)
    /\ scanTimers' = scanTimers \ {t}
    /\ IF TimeoutEmits
         THEN /\ CompletedScan(Trim(bufferRef), t.reading, t.ref)
              /\ ClearBuffer
         ELSE /\ toast' = NoToast
              /\ UNCHANGED <<pendingReferenceCode, scanCount, queryState, inflight,
                             comparisonResult, comparisonCount, resultTimers, resultAge,
                             typedSince, typedSinceClear, runEmits, comparisonScans,
                             barcodeBuffer, bufferRef>>
    /\ UNCHANGED <<referenceCode, isReadingReference, mounted, clocked, sawStale,
                   garmentCode, timeoutRef>>

\* the callback of a result timer: setComparisonResult(null)
ResultTimeout ==
    /\ resultTimers # <<>> /\ Due(Head(resultTimers))
    /\ resultTimers' = Tail(resultTimers)
    /\ comparisonResult' = NoResult
    /\ toast' = NoToast
    /\ UNCHANGED <<referenceCode, pendingReferenceCode, barcodeBuffer, isReadingReference,
                   scanCount, comparisonCount, bufferRef, timeoutRef, scanTimers, queryState,
                   inflight, mounted, clocked, sawStale, garmentCode, typedSince,
                   typedSinceClear, runEmits, comparisonScans, resultAge>>

\* the time to the next deadline
RECURSIVE MinOf(_)
MinOf(S) == LET x == CHOOSE x \in S : TRUE
            IN IF S = {x} THEN x
               ELSE LET m == MinOf(S \ {x}) IN IF x < m THEN x ELSE m
NextDeadline == MinOf({t.left : t \in scanTimers} \cup
                      {resultTimers[i] : i \in 1..Len(resultTimers)})

\* time passes until the next timer is due
Tick ==
    /\ clocked
    /\ scanTimers # {} \/ resultTimers # <<>>
    /\ NextDeadline > 0
    /\ LET d == NextDeadline IN
       /\ scanTimers' = {[t EXCEPT !.left = @ - d] : t \in scanTimers}
       /\ resultTimers' = [i \in 1..Len(resultTimers) |-> resultTimers[i] - d]
       /\ resultAge' = IF comparisonResult # NoResult THEN resultAge + d ELSE resultAge
    /\ toast' = NoToast
    /\ UNCHANGED <<referenceCode, pendingReferenceCode, barcodeBuffer, isReadingReference,
                   comparisonResult, scanCount, comparisonCount, bufferRef, timeoutRef,
                   queryState, inflight, mounted, clocked, sawStale, garmentCode, typedSince,
                   typedSinceClear, runEmits, comparisonScans>>

\* (a variant whose listener is installed once and never torn down)
ListenerEffectOnce == UNCHANGED <<scanTimers, bufferRef, typedSinceClear>>

\* the keydown effect with deps [isReadingReference, referenceCode]: when a dep
\* changed, its cleanup cancels the timer in timeoutRef and its setup empties bufferRef
ListenerEffect ==
    IF <<isReadingReference', referenceCode'>> # <<isReadingReference, referenceCode>>
      THEN /\ scanTimers' = ClearedScanTimers
           /\ bufferRef' = <<>>
           /\ typedSinceClear' = <<>>
      ELSE UNCHANGED <<scanTimers, bufferRef, typedSinceClear>>

\* (a variant that leaves the failed code pending)
NotFoundPendingKept == pendingReferenceCode

\* setPendingReferenceCode(null) of the effect on referenceError
NotFoundPending == Null

\* the lookup of code c answers (ok: a record; otherwise not found or a failed request);
\* the effect on [referenceError, pendingReferenceCode] runs with the render of an error
LookupResponse(c, ok) ==
    /\ c \in inflight
    /\ inflight' = inflight \ {c}
    /\ sawStale' = (sawStale \/ c # pendingReferenceCode)
    /\ garmentCode' = IF ok /\ Observed(c) THEN c ELSE garmentCode
    /\ IF Observed(c)
         THEN IF ok
                THEN /\ queryState' = "success"
                     /\ toast' = NoToast
                     /\ UNCHANGED pendingReferenceCode
                ELSE /\ toast' = "not-found"
                     /\ pendingReferenceCode' = NotFoundPending
                     /\ queryState' = "idle"
         ELSE /\ toast' = NoToast
              /\ UNCHANGED <<pendingReferenceCode, queryState>>
    /\ UNCHANGED <<referenceCode, barcodeBuffer, isReadingReference, comparisonResult,
                   scanCount, comparisonCount, bufferRef, timeoutRef, scanTimers,
                   resultTimers, mounted, clocked, typedSince, typedSinceClear, runEmits,
                   comparisonScans, resultAge>>

\* (a variant that stores the displayed buffer)
AcceptedReferenceFromBuffer == barcodeBuffer

\* setReferenceCode(pendingReferenceCode)
AcceptedReference == pendingReferenceCode

\* (a variant that leaves the pending code in place)
AcceptedPendingKept == pendingReferenceCode

\* setPendingReferenceCode(null) of handleAcceptReference
AcceptedPending == Null

\* (a variant that does not wait for the record)
CanAcceptPendingOnly == Truthy(pendingReferenceCode)

\* if (pendingReferenceCode && referenceGarment)
CanAccept == Truthy(pendingReferenceCode) /\ referenceGarment

\* the Aceptar button (rendered when pendingReferenceCode && referenceGarment)
handleAcceptReference ==
    /\ mounted
    /\ CanAccept
    /\ referenceCode' = AcceptedReference
    /\ isReadingReference' = FALSE
    /\ pendingReferenceCode' = AcceptedPending
    /\ QueryOnKey(AcceptedPending)
    /\ toast' = "saved"
    /\ ListenerEffect
    /\ UNCHANGED <<barcodeBuffer, comparisonResult, scanCount, comparisonCount, timeoutRef,
                   resultTimers, mounted, clocked, sawStale, garmentCode, typedSince,
                   runEmits, comparisonScans, resultAge>>

\* (a variant that leaves the code pending)
CancelledPendingKept == pendingReferenceCode

\* setPendingReferenceCode(null) of handleCancelReference
CancelledPending == Null

\* the Cancelar button (rendered when pendingReferenceCode && referenceGarment)
handleCancelReference ==
    /\ mounted
    /\ Truthy(pendingReferenceCode) /\ referenceGarment
    /\ pendingReferenceCode' = CancelledPending
    /\ QueryOnKey(CancelledPending)
    /\ toast' = "cancelled"
    /\ UNCHANGED <<referenceCode, isReadingReference>>
    /\ ListenerEffect
    /\ UNCHANGED <<barcodeBuffer, comparisonResult, scanCount, comparisonCount, timeoutRef,
                   resultTimers, mounted, clocked, sawStale, garmentCode, typedSince,
                   runEmits, comparisonScans, resultAge>>

\* (a variant that leaves the shown result in place)
ResetResultKept == comparisonResult

\* setComparisonResult(null) of handleNewReference
ResetResult == NoResult

\* (a variant that leaves the reference in place)
ResetReferenceKept == referenceCode

\* setReferenceCode(null) of handleNewReference
ResetReference == Null

\* (a variant that keeps the count of matches)
ResetComparisonCountKept == comparisonCount

\* setComparisonCount(0) of handleNewReference
ResetComparisonCount == 0

\* the "Leer Nuevo Codigo de Referencia" button
\* (rendered when !isReadingReference && !pendingReferenceCode)
handleNewReference ==
    /\ mounted
    /\ ~isReadingReference /\ ~Truthy(pendingReferenceCode)
    /\ referenceCode' = ResetReference
    /\ pendingReferenceCode' = Null
    /\ isReadingReference' = TRUE
    /\ comparisonResult' = ResetResult
    /\ scanCount' = 0
    /\ comparisonCount' = ResetComparisonCount
    /\ comparisonScans' = 0
    /\ QueryOnKey(Null)
    /\ toast' = "reset"
    /\ ListenerEffect
    /\ UNCHANGED <<barcodeBuffer, timeoutRef, resultTimers, mounted, clocked, sawStale,
                   garmentCode, typedSince, runEmits, resultAge>>

\* the component unmounts: both effect cleanups cancel the timer in timeoutRef
Unmount ==
    /\ mounted
    /\ mounted' = FALSE
    /\ scanTimers' = ClearedScanTimers
    /\ toast' = NoToast
    /\ UNCHANGED <<referenceCode, pendingReferenceCode, barcodeBuffer, isReadingReference,
                   comparisonResult, scanCount, comparisonCount, bufferRef, timeoutRef,
                   resultTimers, queryState, inflight, clocked, sawStale, garmentCode,
                   typedSince, typedSinceClear, runEmits, comparisonScans, resultAge>>

Mounted ==
    /\ referenceCode = Null
    /\ pendingReferenceCode = Null
    /\ barcodeBuffer = <<>>
    /\ isReadingReference = TRUE
    /\ comparisonResult = NoResult
    /\ scanCount = 0
    /\ comparisonCount = 0
    /\ bufferRef = <<>>
    /\ timeoutRef = NoHandle
    /\ scanTimers = {}
    /\ resultTimers = <<>>
    /\ queryState = "idle"
    /\ inflight = {}
    /\ mounted = TRUE
    /\ toast = NoToast
    /\ typedSince = <<>>
    /\ typedSinceClear = <<>>
    /\ runEmits = 0
    /\ resultAge = 0
    /\ sawStale = FALSE
    /\ garmentCode = Null
    /\ comparisonScans = 0

Init == Mounted /\ clocked = FALSE

\* the state right after the reference c was scanned (one key, then Enter), looked up
\* and accepted; the inactivity timer of that key has run or was cancelled by the accept
Accepted(c) ==
    /\ referenceCode = c
    /\ pendingReferenceCode = Null
    /\ barcodeBuffer = <<>>
    /\ isReadingReference = FALSE
    /\ comparisonResult = NoResult
    /\ scanCount = 1
    /\ comparisonCount = 0
    /\ bufferRef = <<>>
    /\ timeoutRef = 1
    /\ scanTimers = {}
    /\ resultTimers = <<>>
    /\ queryState = "idle"
    /\ inflight = {}
    /\ mounted = TRUE
    /\ toast = "saved"
    /\ typedSince = <<>>
    /\ typedSinceClear = <<>>
    /\ runEmits = 1
    /\ resultAge = 0
    /\ sawStale = FALSE
    /\ garmentCode = c
    /\ comparisonScans = 0

InitTimed == (\E c \in {<<"A">>, <<"a">>} : Accepted(c)) /\ clocked = TRUE

Next ==
    \/ \E key \in Keys : KeyDown(key)
    \/ \E t \in scanTimers : ScanTimeout(t)
    \/ ResultTimeout
    \/ \E c \in inflight, ok \in BOOLEAN : LookupResponse(c, ok)
    \/ handleAcceptReference
    \/ handleCancelReference
    \/ handleNewReference
    \/ Unmount

Spec == Init /\ [][Next]_vars

\* the comparison phase, with time
NextTimed ==
    \/ \E key \in Keys : KeyDown(key)
    \/ \E t \in scanTimers : ScanTimeout(t)
    \/ ResultTimeout
    \/ Tick
    \/ Unmount

SpecTimed == InitTimed /\ [][NextTimed]_vars

\* the scan that the buffer with key appended would emit is within the bounds of the model
Completable(key) ==
    SingleAlnum(key) =>
        ScanAllowed(Trim(bufferRef \o key), isReadingReference, referenceCode)

\* the whole workflow, where a character is sent only if its scan can be processed
\* within the bounds, and an armed timer does fire: the event loop runs the callback
\* of a timer that is not cancelled
NextLive ==
    \/ \E key \in Keys : Completable(key) /\ KeyDown(key)
    \/ \E t \in scanTimers : ScanTimeout(t)
    \/ ResultTimeout
    \/ \E c \in inflight, ok \in BOOLEAN : LookupResponse(c, ok)
    \/ handleAcceptReference
    \/ handleCancelReference
    \/ handleNewReference
    \/ Unmount

SpecLive ==
    /\ Init /\ [][NextLive]_vars
    /\ WF_vars(\E t \in scanTimers : ScanTimeout(t))

\* ---- properties ----

\* the step emitted a CompletedScan
Emitted == runEmits' = runEmits + 1

\* C1: a CompletedScan processed in CaptureReference mode raises scanCount by exactly 1;
\* no other step changes scanCount, except the reset, which sets it to 0
C1_ScanCountedOnce ==
    [][/\ (Emitted /\ isReadingReference) => scanCount' = scanCount + 1
       /\ ~(Emitted /\ isReadingReference) =>
             \/ scanCount' = scanCount
             \/ toast' = "reset" /\ scanCount' = 0]_vars

\* two scans were counted and the count survived a cancel
C1_Witness ==
    /\ scanCount = 2 /\ toast = "cancelled"
    /\ isReadingReference /\ pendingReferenceCode = Null

\* C2: a CompletedScan processed in Compare mode sets comparisonResult to match exactly
\* when the scanned code equals referenceCode (otherwise no-match), and comparisonCount
\* goes up by 1 exactly on a match
C2_MatchIffEqual ==
    [][(Emitted /\ ~isReadingReference) =>
          LET code == Trim(bufferRef) IN
          /\ code = referenceCode =>
                comparisonResult' = "match" /\ comparisonCount' = comparisonCount + 1
          /\ code # referenceCode =>
                comparisonResult' = "no-match" /\ comparisonCount' = comparisonCount]_vars

\* a match was counted, then a scan of another code was reported as no-match:
\* the count stayed at 1
C2_Witness ==
    /\ referenceCode = <<"A">> /\ barcodeBuffer = <<>>
    /\ comparisonResult = "no-match" /\ toast = "no-match" /\ comparisonCount = 1

\* C3: confirming a pending code switches to Compare mode, stores exactly the code that
\* was pending, clears the pending code and changes neither counter
C3_ConfirmStoresPending ==
    [][toast' = "saved" =>
          /\ isReadingReference /\ Truthy(pendingReferenceCode)
          /\ ~isReadingReference'
          /\ referenceCode' = pendingReferenceCode
          /\ pendingReferenceCode' = Null
          /\ scanCount' = scanCount
          /\ comparisonCount' = comparisonCount]_vars

\* a two-character code was confirmed after an earlier scan had been replaced
C3_Witness ==
    /\ toast = "saved" /\ ~isReadingReference
    /\ referenceCode = <<"a", "A">> /\ scanCount = 2

\* C4: right after a reset the workflow is back at its initial values
C4_ResetState ==
    toast = "reset" =>
        /\ isReadingReference
        /\ referenceCode = Null
        /\ pendingReferenceCode = Null
        /\ comparisonResult = NoResult
        /\ scanCount = 0
        /\ comparisonCount = 0

\* a reset taken while results were on display and their timers were running
C4_Witness == toast = "reset" /\ Len(resultTimers) = 2 /\ barcodeBuffer # <<>>

\* C5: a comparisonResult set by a scan is cleared exactly ResultMs after that scan set
\* it, also when an earlier scan's timer is still running
C5_ClearedAfterResultMs ==
    [][(comparisonResult # NoResult /\ comparisonResult' = NoResult) =>
          resultAge = ResultMs]_vars

\* C6: exactly one of "referenceCode is set" and "isReadingReference" holds, and a
\* CompletedScan processed in Compare mode is always compared (it yields a result)
C6_ReferenceXorReading ==
    /\ [](Truthy(referenceCode) # isReadingReference)
    /\ [][(Emitted /\ ~isReadingReference) =>
             /\ comparisonResult' \in {"match", "no-match"}
             /\ toast' = comparisonResult']_vars

\* the first comparison scan after the first accepted reference matched
C6_Witness ==
    /\ ~isReadingReference /\ Truthy(referenceCode)
    /\ toast = "match" /\ comparisonResult = "match" /\ scanCount = 1

\* C7: pendingReferenceCode and referenceCode are never both set
C7_PendingExcludesReference ==
    ~(Truthy(pendingReferenceCode) /\ Truthy(referenceCode))

\* a reference was accepted with a lookup of a superseded code still unanswered
C7_Witness ==
    /\ toast = "saved" /\ Truthy(referenceCode) /\ pendingReferenceCode = Null
    /\ inflight # {}

\* C8: the characters buffered since the last character arrived are emitted at most once
C8_OneScanPerRun == runEmits <= 1

\* Enter has emitted the scan and the inactivity timer of its last character is
\* still outstanding, with nothing left to emit
C8_Witness == runEmits = 1 /\ bufferRef = <<>> /\ scanTimers # {}

\* the CompletedScan of the step is the string keys
ScanIs(keys) ==
    IF isReadingReference
      THEN pendingReferenceCode' = keys
      ELSE (comparisonResult' = "match") = (keys = referenceCode)

\* C9 as stated: an emitted CompletedScan is the in-order concatenation of the
\* alphanumeric keys received since the previous completion
C9_ScanIsKeysSinceCompletion == [][Emitted => ScanIs(typedSince)]_vars

\* C9 as amended: ... of the alphanumeric keys received since the previous completion
\* or since the keydown effect last emptied bufferRef, whichever came later
C9_ScanIsKeysSinceClear == [][Emitted => ScanIs(typedSinceClear)]_vars

\* the keys A, a were emitted as the scan "Aa"
C9_Witness ==
    /\ pendingReferenceCode = <<"A", "a">> /\ queryState = "fetching"
    /\ typedSince = <<>> /\ bufferRef = <<>>

\* the workflow state a lookup response may act on
workflow == <<referenceCode, pendingReferenceCode, isReadingReference, comparisonResult,
              scanCount, comparisonCount, queryState>>

\* C10: a response for a code that is not the pending code changes nothing of the
\* workflow and raises no notification
C10_StaleResponseIgnored ==
    [][\A c \in inflight :
          (inflight' = inflight \ {c} /\ c # pendingReferenceCode) =>
              (workflow' = workflow /\ toast' = NoToast)]_vars

\* a response for a superseded code has arrived and the pending code, whose own
\* lookup succeeded, is still waiting for the user
C10_Witness == sawStale /\ Truthy(pendingReferenceCode) /\ referenceGarment

\* C11: when the lookup of the pending code fails, the 'not found' notification is
\* raised, the pending code is cleared, the mode stays CaptureReference, referenceCode
\* stays null and neither counter changes; a lookup that fails for the pending code
\* always does so
C11_NotFoundClearsPending ==
    [][/\ toast' = "not-found" =>
             /\ Truthy(pendingReferenceCode) /\ pendingReferenceCode \in inflight
             /\ pendingReferenceCode' = Null
             /\ isReadingReference /\ isReadingReference'
             /\ referenceCode = Null /\ referenceCode' = Null
             /\ scanCount' = scanCount
             /\ comparisonCount' = comparisonCount
       /\ (LookupResponse(pendingReferenceCode, FALSE) /\ mounted
             /\ Truthy(pendingReferenceCode)) => toast' = "not-found"]_vars

\* the second scanned code was not found: both scans stay counted, nothing is pending
C11_Witness ==
    /\ toast = "not-found" /\ pendingReferenceCode = Null /\ isReadingReference
    /\ referenceCode = Null /\ scanCount = 2 /\ queryState = "idle"

\* C12: of each purpose (scan inactivity, result auto-clear) at most one timer is
\* outstanding, and after the component is torn down none is outstanding
C12_OneTimerPerPurpose ==
    /\ Cardinality(scanTimers) <= 1
    /\ Len(resultTimers) <= 1
    /\ ~mounted => (scanTimers = {} /\ resultTimers = <<>>)

\* C13: a step of the Enter branch that emits a scan empties the buffer and leaves no
\* inactivity timer armed
C13_EnterCancelsTimer ==
    [][(KeyDown(Enter) /\ Emitted) =>
          (bufferRef' = <<>> /\ barcodeBuffer' = <<>> /\ scanTimers' = {})]_vars

\* C14: cancelling a pending code clears it, leaves referenceCode null and the mode
\* CaptureReference, and changes neither scanCount nor comparisonCount
C14_CancelClearsPending ==
    [][toast' = "cancelled" =>
          /\ Truthy(pendingReferenceCode)
          /\ pendingReferenceCode' = Null
          /\ referenceCode = Null /\ referenceCode' = Null
          /\ isReadingReference /\ isReadingReference'
          /\ scanCount' = scanCount
          /\ comparisonCount' = comparisonCount]_vars

\* a pending code was cancelled while the first character of the next scan was
\* in the buffer
C14_Witness ==
    /\ toast = "cancelled" /\ pendingReferenceCode = Null /\ referenceCode = Null
    /\ isReadingReference /\ scanCount = 1 /\ bufferRef # <<>>

\* C15: comparisonCount is at most the number of CompletedScans processed in Compare
\* mode since the last reset, and it never decreases except by the reset setting it to 0
C15_MatchesAtMostScans ==
    /\ [](comparisonCount <= comparisonScans)
    /\ [][\/ comparisonCount' >= comparisonCount
          \/ toast' = "reset" /\ comparisonCount' = 0]_vars

\* three comparison scans, two of them matches, while the reference is "a"
C15_Witness ==
    /\ comparisonScans = 3 /\ comparisonCount = 2 /\ referenceCode = <<"a">>
    /\ comparisonResult = "no-match"

\* the inactivity timer whose handle is in timeoutRef is outstanding
Armed == \E t \in scanTimers : t.id = timeoutRef

\* C16: while the component is mounted, a non-empty bufferRef has its inactivity timer
\* armed, and a non-empty bufferRef is eventually emptied
C16_BufferEventuallyEmptied ==
    /\ []((mounted /\ bufferRef # <<>>) => Armed)
    /\ (mounted /\ bufferRef # <<>>) ~> (bufferRef = <<>> \/ ~mounted)

\* two characters are buffered in Compare mode and the timer of the second is armed
C16_Witness ==
    /\ mounted /\ bufferRef = <<"A", "a">> /\ Armed /\ Cardinality(scanTimers) = 1
    /\ ~isReadingReference /\ comparisonScans = 1

\* C17: a reference is set only by a confirm taken while a code is pending and the
\* lookup of that code has returned its record; without a record nothing is confirmed,
\* so every referenceCode set is a code for which the lookup returned a record
C17_ConfirmNeedsRecord ==
    /\ [][(toast' = "saved" \/ referenceCode' \notin {referenceCode, Null}) =>
             /\ Truthy(pendingReferenceCode) /\ referenceGarment
             /\ pendingReferenceCode \notin inflight
             /\ referenceCode' = garmentCode]_vars
    /\ [](referenceGarment => garmentCode = pendingReferenceCode)

\* the two-character reference was confirmed on its record, after the response for
\* a superseded code had come in
C17_Witness ==
    /\ toast = "saved" /\ referenceCode = <<"A", "a">> /\ garmentCode = referenceCode
    /\ sawStale

\* C18: a CompletedScan that arrives while a code is pending replaces the pending code,
\* raises scanCount by 1 and leaves the mode, referenceCode, comparisonCount and
\* comparisonResult as they were; a confirm stores the code pending at that moment
C18_RescanReplacesPending ==
    [][/\ (Emitted /\ Truthy(pendingReferenceCode)) =>
             /\ pendingReferenceCode' = Trim(bufferRef)
             /\ scanCount' = scanCount + 1
             /\ isReadingReference /\ isReadingReference'
             /\ referenceCode' = referenceCode
             /\ comparisonCount' = comparisonCount
             /\ comparisonResult' = comparisonResult
       /\ toast' = "saved" => referenceCode' = pendingReferenceCode]_vars

\* "A" was scanned, then "a" while the lookup of "A" had not answered; the confirm
\* stored "a"
C18_Witness ==
    /\ toast = "saved" /\ referenceCode = <<"a">> /\ scanCount = 2
    /\ inflight = {<<"A">>} /\ ~sawStale

\* C19: a confirm or a reset leaves bufferRef empty and no inactivity timer armed, and
\* emits no scan; the closure of an armed timer holds the current isReadingReference
\* and referenceCode, so a scan is processed under the mode its characters arrived in;
\* and an emitted scan holds only characters received since the last mode change
C19_ModeChangeDiscardsBuffer ==
    /\ [][toast' \in {"saved", "reset"} =>
             /\ isReadingReference' # isReadingReference
             /\ bufferRef' = <<>> /\ scanTimers' = {}
             /\ ~Emitted]_vars
    /\ [](\A t \in scanTimers :
             t.reading = isReadingReference /\ t.ref = referenceCode)
    /\ [][Emitted => Trim(bufferRef) = typedSinceClear]_vars

\* a reference was confirmed while a character was in the buffer: the character is
\* gone from bufferRef and its timer is cancelled
C19_Witness ==
    /\ toast = "saved" /\ ~isReadingReference /\ typedSince # <<>>
    /\ bufferRef = <<>> /\ scanTimers = {} /\ runEmits = 0

\* C20: the buffer shown to the user (barcodeBuffer) equals bufferRef in every state
C20_ShownBufferIsBuffer == barcodeBuffer = bufferRef

====
